---- MODULE Spec2Model ----
(***************************************************************************)
(* The quiz session of src/index.tsx (component App): the GameState held   *)
(* by useState, the shuffled options held by a second useState, the       *)
(* requests to the question source that are in flight, and the advance    *)
(* timers started by handleAnswer.                                        *)
(*                                                                         *)
(* The component is rendered by createRoot.  A click is handled in one    *)
(* step: its handler, the render of every update queued so far and the    *)
(* effects of that render.  A timer callback, the continuation of an      *)
(* await and the shuffle effect only queue their update: the render that  *)
(* applies it is a later task, and the shuffle effect of that render a    *)
(* task after it.  Handlers read the state of the last render; a handler  *)
(* is reachable only through the element that carries it, so an action of *)
(* the player is enabled when that element is in the last render and not  *)
(* disabled.                                                              *)
(***************************************************************************)
EXTENDS Integers, Sequences, FiniteSets, TLC

\* ---------------------------------------------------------------- bounds
\* Longest question list the question source returns in the model.
MaxQuestions == 2
\* Cap on the callbacks awaiting the event loop at the same time: advance
\* timers not yet run plus calls of generateQuestions awaiting their
\* response.
MaxInFlight == 2

\* ------------------------------------------------------- JavaScript values
\* null (selectedOption, lastAnswerCorrect) and the value of a missing field.
Null == "null"
Undefined == "undefined"

\* ToBoolean on the values selectedOption takes: null and "" are falsy.
Truthy(v) == v \notin {Null, Undefined, ""}

\* The three difficulty buttons of renderMenu.  The level only selects a
\* phrase of the prompt sent to the question source; the session never
\* reads it.
Levels == {"Beginner", "Intermediate", "Advanced"}

\* The fixed message of the catch block (the source text is in Chinese).
FetchErrorMessage == "generation failed, check the network and retry"

\* ------------------------------------------------ question source answers
\* A parsed JSON value is an array of items or something else (an object);
\* the value of a field that is missing is undefined.
JsonArray(items) == [type |-> "array", items |-> items]
JsonObject == [type |-> "object", items |-> << >>]
JsonUndefined == [type |-> "undefined", items |-> << >>]

\* Items the question source may send.  Even positions have two
\* distractors, odd positions one.
GoodQuestion(i) ==
  IF i % 2 = 1
  THEN [character |-> "c1", zhuyin |-> "a", meaning |-> "m1",
        distractors |-> JsonArray(<<"b">>)]
  ELSE [character |-> "c2", zhuyin |-> "b", meaning |-> "m2",
        distractors |-> JsonArray(<<"a", "c">>)]

\* An item whose distractor is the empty string.
BlankOptionQuestion ==
  [character |-> "c3", zhuyin |-> "a", meaning |-> "m3",
   distractors |-> JsonArray(<<"">>)]

\* An item without the field "meaning".
NoMeaningQuestion ==
  [character |-> "c4", zhuyin |-> "a", meaning |-> Undefined,
   distractors |-> JsonArray(<<"b">>)]

\* An item without the field "distractors".
NoDistractorsQuestion ==
  [character |-> "c5", zhuyin |-> "a", meaning |-> "m5",
   distractors |-> JsonUndefined]

\* response.text: empty, not JSON, or the text of a JSON value.
EmptyText == [kind |-> "empty", value |-> JsonObject]
GarbageText == [kind |-> "garbage", value |-> JsonObject]
JsonText(v) == [kind |-> "json", value |-> v]

ResponseTexts ==
  {EmptyText, GarbageText, JsonText(JsonObject), JsonText(JsonArray(<< >>))}
  \cup {JsonText(JsonArray([i \in 1..n |-> GoodQuestion(i)])) :
          n \in 1..MaxQuestions}
  \cup {JsonText(JsonArray([i \in 1..n |-> BlankOptionQuestion])) :
          n \in 1..MaxQuestions}
  \cup {JsonText(JsonArray(<<NoMeaningQuestion>>))}
  \cup {JsonText(JsonArray(<<NoDistractorsQuestion>>))}

\* JSON.parse: throws on text that is not JSON, else yields the value.
JSONparse(text) ==
  [threw |-> text.kind # "json", value |-> text.value]

\* ------------------------------------------------------------------ state
VARIABLES
  state,            \* the GameState of the last render
  queue,            \* the updates of setState queued since the last
                    \* render, in the order they were queued
  shuffledOptions,  \* the second useState, as of the last render
  queuedOptions,    \* the array passed to setShuffledOptions since the
                    \* last render, if any: << >> or a sequence of one
                    \* array (a later call replaces an earlier one)
  effectPending,    \* the last render has changed a dependency of the
                    \* shuffle effect, and the effect has not run yet
  mounted,          \* FALSE once a render or an effect has thrown and
                    \* React has unmounted App
  clientThrows,     \* new GoogleGenAI({apiKey}) throws in this build of
                    \* the page (no API key, or no process object)
  pending,          \* calls of generateQuestions awaiting generateContent,
                    \* in the order they were issued
  timers,           \* setTimeout callbacks not yet run, in creation order
  lastSpeak,        \* what speakCharacter did in the event just handled,
                    \* "none" if that event did not call it
  accepted          \* how many calls of handleAnswer have passed its guard
                    \* since the question list was installed

vars ==
  <<state, queue, shuffledOptions, queuedOptions, effectPending, mounted,
    clientThrows, pending, timers, lastSpeak, accepted>>

\* questions.length and questions[i] (0-based) of a parsed JSON value.  The
\* length of a value that is no array is undefined; -1 stands for it, so
\* that currentIndex < length - 1 is false as it is for NaN.
Length(questions) ==
  IF questions.type = "array" THEN Len(questions.items) ELSE -1

HasItem(questions, i) ==
  questions.type = "array" /\ i >= 0 /\ i < Len(questions.items)

Item(questions, i) == questions.items[i + 1]

\* The callbacks awaiting the event loop.
InFlight == Len(timers) + Len(pending)

\* The initial GameState.
InitialState ==
  [screen |-> "menu", score |-> 0, streak |-> 0,
   questions |-> JsonArray(<< >>), currentIndex |-> 0,
   lastAnswerCorrect |-> Null, selectedOption |-> Null,
   errorMessage |-> ""]

Init ==
  /\ state = InitialState
  /\ queue = << >>
  /\ shuffledOptions = << >>
  /\ queuedOptions = << >>
  /\ effectPending = FALSE
  /\ mounted = TRUE
  /\ clientThrows \in BOOLEAN
  /\ pending = << >>
  /\ timers = << >>
  /\ lastSpeak = "none"
  /\ accepted = 0

\* ----------------------------------------------------------- the updates
\* The state the callback of setTimeout sets, t being what it captured.
AdvanceState_KeepsResult(prev, t) ==
  IF t.currentIndex < t.length - 1
  THEN [prev EXCEPT !.currentIndex = prev.currentIndex + 1,
                    !.selectedOption = Null]
  ELSE [prev EXCEPT !.screen = "gameover"]

\* The state the callback of setTimeout sets, t being what it captured.
AdvanceState(prev, t) ==
  IF t.currentIndex < t.length - 1
  THEN [prev EXCEPT !.currentIndex = prev.currentIndex + 1,
                    !.selectedOption = Null,
                    !.lastAnswerCorrect = Null]
  ELSE [prev EXCEPT !.screen = "gameover"]

\* A start of session that leaves the streak and the answer of the session
\* before it in place.
StartSession_KeepsAnswer(prev, questions) ==
  [prev EXCEPT !.screen = "playing", !.questions = questions,
               !.currentIndex = 0, !.score = 0]

\* The state the try block sets once the questions are parsed.
StartSession(prev, questions) ==
  [prev EXCEPT !.screen = "playing", !.questions = questions,
               !.currentIndex = 0, !.score = 0, !.streak = 0,
               !.lastAnswerCorrect = Null, !.selectedOption = Null]

\* The state the first setState of generateQuestions sets.
LoadingState(prev) ==
  [prev EXCEPT !.screen = "loading", !.errorMessage = ""]

\* The state the catch block sets.
FailSession(prev) ==
  [prev EXCEPT !.screen = "error", !.errorMessage = FetchErrorMessage]

\* The updates a timer callback and the continuation of an await queue:
\* the timer callback chooses its update from what it captured.
AdvanceUpdate(t) ==
  [kind |-> "advance", currentIndex |-> t.currentIndex,
   length |-> t.length, questions |-> JsonObject]

StartUpdate(questions) ==
  [kind |-> "start", currentIndex |-> 0, length |-> 0,
   questions |-> questions]

FailUpdate ==
  [kind |-> "fail", currentIndex |-> 0, length |-> 0,
   questions |-> JsonObject]

\* The functional update u applied to prev.
ApplyUpdate(prev, u) ==
  IF u.kind = "advance" THEN AdvanceState(prev, u)
  ELSE IF u.kind = "start" THEN StartSession(prev, u.questions)
  ELSE FailSession(prev)

\* React applies the queued updates in the order they were queued.
RECURSIVE ApplyAll(_, _)
ApplyAll(prev, updates) ==
  IF updates = << >> THEN prev
  ELSE ApplyAll(ApplyUpdate(prev, Head(updates)), Tail(updates))

\* The GameState React holds: the state of the last render with the queued
\* updates applied.  It is the prev of the next functional update.
Current == ApplyAll(state, queue)

\* One of the queued updates installs a new questions array.
Installs(updates) ==
  \E i \in 1..Len(updates) : updates[i].kind = "start"

\* ------------------------------------------------------ render and effect
\* renderGame reads question.character of questions[currentIndex]: the
\* render throws when that item does not exist.
RenderThrows(s) ==
  s.screen = "playing" /\ ~HasItem(s.questions, s.currentIndex)

\* The guard of the shuffle effect.
EffectApplies(s) ==
  s.screen = "playing" /\ HasItem(s.questions, s.currentIndex)

\* The effect throws at [...q.distractors] when distractors is undefined.
EffectThrows(s) ==
  /\ EffectApplies(s)
  /\ Item(s.questions, s.currentIndex).distractors.type # "array"

\* [all[i], all[j]] = [all[j], all[i]] with 0-based i and j.
Swap(all, i, j) ==
  [k \in 1..Len(all) |->
     IF k = i + 1 THEN all[j + 1]
     ELSE IF k = j + 1 THEN all[i + 1]
     ELSE all[k]]

\* The values Math.floor(Math.random() * (i + 1)) can take, for every i of
\* the loop over an array of n elements.
RandomChoices(n) ==
  {js \in [1..(n - 1) -> 0..(n - 1)] : \A i \in 1..(n - 1) : js[i] <= i}

\* The loop of the effect, from index i down to 1, with random values js.
RECURSIVE FisherYates(_, _, _)
FisherYates(all, i, js) ==
  IF i < 1 THEN all
  ELSE FisherYates(Swap(all, i, js[i]), i - 1, js)

\* [...q.distractors, q.zhuyin]
AllOptions(q) == q.distractors.items \o <<q.zhuyin>>

\* Every array the effect can pass to setShuffledOptions for question q.
Shuffles(q) ==
  LET all == AllOptions(q)
  IN {FisherYates(all, Len(all) - 1, js) : js \in RandomChoices(Len(all))}

\* The dependency array of the effect; a successful fetch always installs a
\* new array object, which newArray tells.
DepsChanged(old, new, newArray) ==
  \/ newArray
  \/ old.currentIndex # new.currentIndex
  \/ old.screen # new.screen

\* The render of state new has a shuffle effect to run.
HasEffect(new, newArray) ==
  /\ ~RenderThrows(new)
  /\ DepsChanged(state, new, newArray)
  /\ EffectApplies(new)

\* What setShuffledOptions queues when the effect runs for state s.
EffectQueues(s) ==
  {<<all>> : all \in Shuffles(Item(s.questions, s.currentIndex))}

\* The options a render shows when held is what was queued for it.
Shown(held) == IF held = << >> THEN shuffledOptions ELSE held[Len(held)]

\* The render of state new in its own task (the updates were queued by a
\* timer callback, after an await or by the effect): the render may throw
\* and unmount the component; its effect is left to a later task.
AfterRender(new, newArray) ==
  /\ state' = new
  /\ queue' = << >>
  /\ shuffledOptions' = Shown(queuedOptions)
  /\ queuedOptions' = << >>
  /\ mounted' = ~RenderThrows(new)
  /\ effectPending' = HasEffect(new, newArray)

\* The render of state new at the end of a click: an effect still pending
\* runs first, on the state of the render it belongs to; the render shows
\* the options queued until then; the effect of the new render runs before
\* the click returns, and the array it queues awaits a later render.
AfterClick(new, newArray) ==
  /\ state' = new
  /\ queue' = << >>
  /\ effectPending' = FALSE
  /\ IF effectPending /\ EffectThrows(state)
     THEN /\ mounted' = FALSE
          /\ shuffledOptions' = shuffledOptions
          /\ queuedOptions' = queuedOptions
     ELSE \E held \in (IF effectPending THEN EffectQueues(state)
                       ELSE {queuedOptions}) :
            /\ shuffledOptions' = Shown(held)
            /\ IF RenderThrows(new)
               THEN mounted' = FALSE /\ queuedOptions' = << >>
               ELSE IF HasEffect(new, newArray)
               THEN /\ mounted' = ~EffectThrows(new)
                    /\ IF EffectThrows(new)
                       THEN queuedOptions' = << >>
                       ELSE queuedOptions' \in EffectQueues(new)
               ELSE mounted' = TRUE /\ queuedOptions' = << >>

\* The task that renders the queued updates.  The effect of the render
\* before it was scheduled earlier and has run.
Render ==
  /\ mounted
  /\ queue # << >> \/ queuedOptions # << >>
  /\ ~effectPending
  /\ AfterRender(Current, Installs(queue))
  /\ lastSpeak' = "none"
  /\ UNCHANGED <<clientThrows, pending, timers, accepted>>

\* The task that runs the shuffle effect of the last render: the effect
\* calls setShuffledOptions and returns.
RunEffect ==
  /\ mounted
  /\ effectPending
  /\ effectPending' = FALSE
  /\ mounted' = ~EffectThrows(state)
  /\ IF EffectThrows(state)
     THEN queuedOptions' = queuedOptions
     ELSE queuedOptions' \in EffectQueues(state)
  /\ lastSpeak' = "none"
  /\ UNCHANGED <<state, queue, shuffledOptions, clientThrows, pending,
                 timers, accepted>>

\* ---------------------------------------------------------------- speaker
\* What the platform does with an utterance: no speechSynthesis in window,
\* the utterance is spoken, or the synthesis fails (an error event on the
\* utterance, which nothing listens to).
SpeechEnvs == {"unsupported", "speaks", "fails"}

\* A speakCharacter that lets a failed synthesis escape as an exception.
speakCharacter_Throwing(text, env) ==
  [threw |-> env = "fails",
   did |-> IF env = "unsupported" THEN "unsupported"
           ELSE IF env = "speaks" THEN "spoken" ELSE "failed"]

\* speakCharacter never throws; did is what becomes of the utterance.
speakCharacter(text, env) ==
  [threw |-> FALSE,
   did |-> IF env = "unsupported" THEN "unsupported"
           ELSE IF env = "speaks" THEN "spoken" ELSE "failed"]

\* ---------------------------------------------------- requests in flight
\* A request in flight carries two records of what happened since it was
\* issued:
\*   superseded  a newer request has been issued;
\*   disturbed   an event has changed questions (the array installed),
\*               score, streak or currentIndex.
NewRequest == [superseded |-> FALSE, disturbed |-> FALSE]

\* The fields a failed request is to leave as they were.
Snapshot(s) ==
  [questions |-> s.questions, score |-> s.score, streak |-> s.streak,
   currentIndex |-> s.currentIndex]

\* The requests rs after an event that takes the state React holds to new;
\* newArray tells that the event installed a new questions array.
Track(rs, new, newArray) ==
  [i \in 1..Len(rs) |->
     [rs[i] EXCEPT !.disturbed =
        @ \/ newArray \/ Snapshot(new) # Snapshot(Current)]]

\* The requests in flight once a newer one is issued.
Superseded(rs) == [i \in 1..Len(rs) |-> [rs[i] EXCEPT !.superseded = TRUE]]

RemoveAt(seq, k) == SubSeq(seq, 1, k - 1) \o SubSeq(seq, k + 1, Len(seq))

\* ----------------------------------------------------------------- timers
\* A pending timer holds what its callback captured (currentIndex and
\* questions.length of the render handleAnswer ran in) and its delay.
\* Three fields record what real time allows and what happened since:
\*   aged  a timer created later has already run, so this one is at least
\*         1500 ms old and no timer created from now on can run before it;
\*   wait  how many timers that were aged when this one was created have
\*         not run yet (they are the first wait entries of timers);
\*   left  the session whose render it captured has been left (a restart,
\*         a new request or a new question list); a timer started from a
\*         render that a queued question list is about to replace is left
\*         from the start.
NewTimer(currentIndex, length, delay) ==
  [currentIndex |-> currentIndex, length |-> length, delay |-> delay,
   aged |-> FALSE,
   wait |-> Cardinality({j \in 1..Len(timers) : timers[j].aged}),
   left |-> Installs(queue)]

\* Timer k is the next to run in some timing of the events so far: timers
\* of equal delay run in creation order, and a timer of 1500 ms runs before
\* an older one of 2500 ms only if it was created less than 1000 ms later.
MayFire(k) ==
  /\ k \in 1..Len(timers)
  /\ timers[k].wait = 0
  /\ \A j \in 1..(k - 1) : timers[j].delay > timers[k].delay

\* The pending timers once timer k has run.
AfterFiring(k) ==
  [i \in 1..(Len(timers) - 1) |->
     IF i < k
     THEN [timers[i] EXCEPT !.aged = TRUE]
     ELSE [timers[i + 1] EXCEPT
             !.wait = IF k <= @ THEN @ - 1 ELSE @]]

\* The pending timers once the session they may belong to has been left.
MarkLeft(ts) == [i \in 1..Len(ts) |-> [ts[i] EXCEPT !.left = TRUE]]

\* The callback of timer k runs: it queues its update and returns.
Advance(k) ==
  /\ mounted
  /\ MayFire(k)
  /\ queue' = Append(queue, AdvanceUpdate(timers[k]))
  /\ timers' = AfterFiring(k)
  /\ pending' = Track(pending, AdvanceState(Current, timers[k]), FALSE)
  /\ lastSpeak' = "none"
  /\ UNCHANGED <<state, shuffledOptions, queuedOptions, effectPending,
                 mounted,
                 clientThrows, accepted>>

\* ------------------------------------------------------------ generation

\* What awaiting generateContent yields: a rejection or a response.
GenerateContentOutcomes ==
  {[rejected |-> TRUE, text |-> EmptyText]}
  \cup {[rejected |-> FALSE, text |-> t] : t \in ResponseTexts}

\* The try block throws: the await rejects, the text is falsy, or
\* JSON.parse throws.
TryThrows(outcome) ==
  \/ outcome.rejected
  \/ outcome.text.kind = "empty"
  \/ JSONparse(outcome.text).threw

\* A click on a difficulty button of the menu: generateQuestions up to its
\* await, or to the end of its catch block when the client cannot be
\* created.
SelectLevel(level) ==
  /\ mounted
  /\ state.screen = "menu"
  /\ InFlight < MaxInFlight
  /\ IF clientThrows
     THEN /\ AfterClick(FailSession(LoadingState(Current)), Installs(queue))
          /\ pending' = pending
     ELSE /\ AfterClick(LoadingState(Current), Installs(queue))
          /\ pending' = Append(Superseded(pending), NewRequest)
  /\ timers' = MarkLeft(timers)
  /\ lastSpeak' = "none"
  /\ UNCHANGED <<clientThrows, accepted>>

\* generateQuestions after the await of request r, the try block running
\* to its end: the update is queued.
FetchSucceeds(r, outcome) ==
  /\ mounted
  /\ r \in 1..Len(pending)
  /\ ~TryThrows(outcome)
  /\ queue' = Append(queue, StartUpdate(JSONparse(outcome.text).value))
  /\ pending' =
       Track(RemoveAt(pending, r),
             StartSession(Current, JSONparse(outcome.text).value), TRUE)
  /\ timers' = MarkLeft(timers)
  /\ lastSpeak' = "none"
  /\ accepted' = 0
  /\ UNCHANGED <<state, shuffledOptions, queuedOptions, effectPending,
                 mounted,
                 clientThrows>>

\* generateQuestions after the await of request r, ending in the catch
\* block: the update is queued.
FetchFails(r, outcome) ==
  /\ mounted
  /\ r \in 1..Len(pending)
  /\ TryThrows(outcome)
  /\ queue' = Append(queue, FailUpdate)
  /\ pending' = Track(RemoveAt(pending, r), FailSession(Current), FALSE)
  /\ lastSpeak' = "none"
  /\ UNCHANGED <<state, shuffledOptions, queuedOptions, effectPending,
                 mounted,
                 clientThrows, timers, accepted>>

\* A score that a wrong answer lowers.
AnswerScore_Penalty(prev, isCorrect) ==
  IF isCorrect THEN prev.score + 10 + (prev.streak * 2) ELSE prev.score - 5

\* The score of the functional update in handleAnswer.
AnswerScore(prev, isCorrect) ==
  IF isCorrect THEN prev.score + 10 + (prev.streak * 2) ELSE prev.score

\* The streak of the functional update in handleAnswer.
AnswerStreak(prev, isCorrect) ==
  IF isCorrect THEN prev.streak + 1 ELSE 0

\* The functional update of handleAnswer applied to prev.
AnswerState(prev, option, isCorrect) ==
  [prev EXCEPT !.selectedOption = option,
               !.lastAnswerCorrect = IF isCorrect THEN "true" ELSE "false",
               !.score = AnswerScore(prev, isCorrect),
               !.streak = AnswerStreak(prev, isCorrect)]

\* The delay handleAnswer passes to setTimeout.
AdvanceDelay(isCorrect) == IF isCorrect THEN 1500 ELSE 2500

\* The guard of handleAnswer returns at once.
handleAnswerReturns(s) == Truthy(s.selectedOption)

\* handleAnswer passes its guard and throws a TypeError: currentQ is
\* undefined and currentQ.zhuyin is read.
handleAnswerThrows(s) ==
  ~Truthy(s.selectedOption) /\ ~HasItem(s.questions, s.currentIndex)

\* handleAnswer(option), env being what the platform does with an
\* utterance.  The handler reads the state of the last render; its update
\* is applied to the state React holds.  A call of speakCharacter that
\* threw would end the handler before its setState and setTimeout.
handleAnswer(option, env) ==
  IF handleAnswerReturns(state) \/ handleAnswerThrows(state)
  THEN UNCHANGED vars
  ELSE
    LET currentQ == Item(state.questions, state.currentIndex)
        isCorrect == option = currentQ.zhuyin
        spoken == speakCharacter(currentQ.character, env)
        new == AnswerState(Current, option, isCorrect)
    IN /\ lastSpeak' = IF isCorrect THEN spoken.did ELSE "none"
       /\ IF isCorrect /\ spoken.threw
          THEN UNCHANGED <<state, queue, shuffledOptions, queuedOptions,
                           effectPending,
                           mounted, timers, accepted, pending>>
          ELSE /\ accepted' = accepted + 1
               /\ timers' = Append(timers,
                              NewTimer(state.currentIndex,
                                       Length(state.questions),
                                       AdvanceDelay(isCorrect)))
               /\ AfterClick(new, Installs(queue))
               /\ pending' = Track(pending, new, FALSE)
       /\ UNCHANGED clientThrows

\* A click on the button of an option: the button is rendered by renderGame
\* from shuffledOptions and is disabled once a result is shown.
Answer(option, env) ==
  /\ mounted
  /\ state.screen = "playing"
  /\ \E i \in 1..Len(shuffledOptions) : shuffledOptions[i] = option
  /\ ~Truthy(state.selectedOption)
  /\ InFlight < MaxInFlight
  /\ handleAnswer(option, env)

\* A click on the audio button of renderGame; no state is set.
SpeakButton(env) ==
  /\ mounted
  /\ state.screen = "playing"
  /\ lastSpeak' =
       speakCharacter(Item(state.questions, state.currentIndex).character,
                      env).did
  /\ UNCHANGED <<state, queue, shuffledOptions, queuedOptions,
                 effectPending, mounted,
                 clientThrows, pending, timers, accepted>>

\* ---------------------------------------------------------------- restart
\* The button of renderError and the button of renderGameOver.
Restart ==
  /\ mounted
  /\ state.screen \in {"gameover", "error"}
  /\ AfterClick([Current EXCEPT !.screen = "menu"], Installs(queue))
  /\ timers' = MarkLeft(timers)
  /\ pending' = Track(pending, Current, FALSE)
  /\ lastSpeak' = "none"
  /\ UNCHANGED <<clientThrows, accepted>>

\* ---------------------------------------------------------- specification
AnswerOptions == {"a", "b", "c", ""}

Next ==
  \/ \E level \in Levels : SelectLevel(level)
  \/ \E r \in 1..MaxInFlight, outcome \in GenerateContentOutcomes :
       FetchSucceeds(r, outcome)
  \/ \E r \in 1..MaxInFlight, outcome \in GenerateContentOutcomes :
       FetchFails(r, outcome)
  \/ \E option \in AnswerOptions, env \in SpeechEnvs : Answer(option, env)
  \/ \E env \in SpeechEnvs : SpeakButton(env)
  \/ \E k \in 1..MaxInFlight : Advance(k)
  \/ Render
  \/ RunEffect
  \/ Restart

Spec == Init /\ [][Next]_vars

\* What the platform and the player are taken to do sooner or later: a
\* timer that is due runs its callback, a request in flight resolves or
\* rejects, the queued updates are rendered and the effect of a render
\* runs, the player answers an open question and presses the button of the
\* gameover and error screens.
Fairness ==
  /\ WF_vars(\E k \in 1..MaxInFlight : Advance(k))
  /\ WF_vars(\E r \in 1..MaxInFlight, outcome \in GenerateContentOutcomes :
               FetchSucceeds(r, outcome) \/ FetchFails(r, outcome))
  /\ WF_vars(Render)
  /\ WF_vars(RunEffect)
  /\ WF_vars(\E option \in AnswerOptions, env \in SpeechEnvs :
               Answer(option, env))
  /\ WF_vars(Restart)

FairSpec == Spec /\ Fairness

\* ----------------------------------------------------------------- claims
\* The session is the GameState React holds (Current): every update is
\* applied to it when it is queued.  The page shows the state of the last
\* render (state), which is also what the handlers read.

\* The question on display, where there is one.
CurrentQ == Item(state.questions, state.currentIndex)

\* The current question of the session, where there is one.
SessionQ == Item(Current.questions, Current.currentIndex)

\* C1: every accepted answer whose option is the correct answer of the
\* current question of the session adds 10 + 2 * (streak before the
\* answer) to the score and 1 to the streak.
C1_CorrectAnswerScores ==
  [][\A option \in AnswerOptions, env \in SpeechEnvs :
       (/\ Answer(option, env)
        /\ HasItem(Current.questions, Current.currentIndex)
        /\ option = SessionQ.zhuyin)
       => /\ Current'.score = Current.score + 10 + 2 * Current.streak
          /\ Current'.streak = Current.streak + 1]_vars

\* C2: every accepted answer whose option is not the correct answer of the
\* current question of the session sets the streak to 0, keeps the score,
\* sets lastAnswerCorrect to false and selectedOption to the chosen option.
C2_WrongAnswerResets ==
  [][\A option \in AnswerOptions, env \in SpeechEnvs :
       (/\ Answer(option, env)
        /\ HasItem(Current.questions, Current.currentIndex)
        /\ option # SessionQ.zhuyin)
       => /\ Current'.streak = 0
          /\ Current'.score = Current.score
          /\ Current'.lastAnswerCorrect = "false"
          /\ Current'.selectedOption = option]_vars

\* C3: once the current question has been answered (selectedOption is
\* set), an answer with any option changes neither score, streak nor
\* selectedOption and schedules no further advance.
C3_AnswerIdempotent ==
  [][\A option \in AnswerOptions, env \in SpeechEnvs :
       (Current.selectedOption # Null /\ Answer(option, env))
       => /\ Current'.score = Current.score
          /\ Current'.streak = Current.streak
          /\ Current'.selectedOption = Current.selectedOption
          /\ Len(timers') = Len(timers)]_vars

\* C4: the screen changes only menu -> loading by selectLevel, loading ->
\* playing by a fetch success, loading -> error by a fetch failure, playing
\* -> gameover by the advance after the last question, and gameover -> menu
\* and error -> menu by restart.  A selectLevel whose request cannot be
\* created takes both steps menu -> loading -> error within its one call.
C4_ScreenTransitions ==
  [][Current'.screen # Current.screen
     => \/ /\ Current.screen = "menu"
           /\ Current'.screen = IF clientThrows THEN "error" ELSE "loading"
           /\ \E level \in Levels : SelectLevel(level)
        \/ /\ Current.screen = "loading" /\ Current'.screen = "playing"
           /\ \E r \in 1..Len(pending),
                 outcome \in GenerateContentOutcomes :
                FetchSucceeds(r, outcome)
        \/ /\ Current.screen = "loading" /\ Current'.screen = "error"
           /\ \E r \in 1..Len(pending),
                 outcome \in GenerateContentOutcomes :
                FetchFails(r, outcome)
        \/ /\ Current.screen = "playing" /\ Current'.screen = "gameover"
           /\ Current.currentIndex = Length(Current.questions) - 1
           /\ \E k \in 1..Len(timers) : Advance(k)
        \/ /\ Current.screen \in {"gameover", "error"}
           /\ Current'.screen = "menu"
           /\ Restart]_vars

\* The fields of the session a stale event must leave alone.
SessionFields(s) ==
  <<s.screen, s.questions, s.currentIndex, s.score, s.streak,
    s.selectedOption>>

\* C5: when a request resolves after a newer request was issued, with
\* success or failure, screen, questions, currentIndex, score, streak and
\* selectedOption stay as they are.
C5_LastRequestWins ==
  [][\A r \in 1..Len(pending), outcome \in GenerateContentOutcomes :
       (/\ pending[r].superseded
        /\ (FetchSucceeds(r, outcome) \/ FetchFails(r, outcome)))
       => SessionFields(Current') = SessionFields(Current)]_vars

\* C6: an advance that fires after its session was left (a restart, a
\* level choice or a new question list came in between), among others
\* whenever the screen is menu or loading, changes neither screen,
\* currentIndex, selectedOption nor lastAnswerCorrect.
C6_StaleAdvanceSuppressed ==
  [][\A k \in 1..Len(timers) :
       (/\ Advance(k)
        /\ (Current.screen \in {"menu", "loading"} \/ timers[k].left))
       => /\ Current'.screen = Current.screen
          /\ Current'.currentIndex = Current.currentIndex
          /\ Current'.selectedOption = Current.selectedOption
          /\ Current'.lastAnswerCorrect = Current.lastAnswerCorrect]_vars

\* C7: a failed fetch ends in screen = error with the fixed message, with
\* questions, score, streak and currentIndex as they were before the
\* request was issued (the failure changes none of them, and no event
\* since the request was issued has), and starts no new request; so does a
\* selectLevel whose request cannot be created.
C7_FailedFetchKeepsState ==
  [][/\ \A r \in 1..Len(pending), outcome \in GenerateContentOutcomes :
          FetchFails(r, outcome)
          => /\ Current'.screen = "error"
             /\ Current'.errorMessage = FetchErrorMessage
             /\ Snapshot(Current') = Snapshot(Current)
             /\ ~pending[r].disturbed
             /\ Len(pending') < Len(pending)
     /\ (clientThrows /\ \E level \in Levels : SelectLevel(level))
        => /\ Current'.screen = "error"
           /\ Current'.errorMessage = FetchErrorMessage
           /\ Snapshot(Current') = Snapshot(Current)
           /\ pending' = pending]_vars

\* A Question record with every field present.
WellFormed(q) ==
  /\ q.character # Undefined
  /\ q.zhuyin # Undefined
  /\ q.meaning # Undefined
  /\ q.distractors.type = "array"

WellFormedList(questions) ==
  /\ questions.type = "array"
  /\ Len(questions.items) >= 1
  /\ \A i \in 1..Len(questions.items) : WellFormed(questions.items[i])

\* C8: playing is entered only with a non-empty array of well-formed
\* Question records; every other response leads to error.
C8_PlayingOnlyWellFormed ==
  Current.screen = "playing" => WellFormedList(Current.questions)

\* C9: while screen = playing, 0 <= currentIndex < questions.length.
C9_IndexInRange ==
  Current.screen = "playing"
  => /\ 0 <= Current.currentIndex
     /\ Current.currentIndex < Length(Current.questions)

\* C10: an answer the handler judges correct (the speaker is called) has
\* the same effect on the session whatever the speaker does (speaks, is
\* unsupported, fails): selectedOption, lastAnswerCorrect, score and streak
\* are set, nothing else of the session changes, the advance is scheduled
\* after 1500 ms, and with nothing else left to render the component stays
\* mounted with the options it shows.
C10_SpeakerFailureIgnored ==
  [][\A option \in AnswerOptions, env \in SpeechEnvs :
       (Answer(option, env) /\ option = CurrentQ.zhuyin)
       => /\ Current' = [Current EXCEPT
                           !.selectedOption = option,
                           !.lastAnswerCorrect = "true",
                           !.score = Current.score + 10 + 2 * Current.streak,
                           !.streak = Current.streak + 1]
          /\ Len(timers') = Len(timers) + 1
          /\ timers'[Len(timers')].delay = 1500
          /\ timers'[Len(timers')].currentIndex = state.currentIndex
          /\ (queue = << >> /\ queuedOptions = << >> /\ ~effectPending)
             => mounted' /\ shuffledOptions' = shuffledOptions]_vars

\* A correct answer was accepted although the synthesis failed.
C10_Witness ==
  /\ lastSpeak = "failed"
  /\ state.screen = "playing"
  /\ queue = << >>
  /\ state.lastAnswerCorrect = "true"
  /\ state.selectedOption = CurrentQ.zhuyin
  /\ state.score = 10
  /\ Len(timers) = 1

\* C11: in every reachable state whose screen is not playing (menu,
\* loading, gameover or error, the initial state included), a call of
\* handleAnswer is a no-op: it returns at its guard, so it changes no
\* field, schedules no advance and does not throw.
C11_AnswerOutsidePlayingIsNoOp ==
  state.screen # "playing"
  => /\ ~handleAnswerThrows(state)
     /\ handleAnswerReturns(state)

\* How often x occurs in the sequence seq.
Count(seq, x) == Cardinality({i \in 1..Len(seq) : seq[i] = x})

\* a and b have the same length and the same elements with multiplicity.
IsPermutation(a, b) ==
  /\ Len(a) = Len(b)
  /\ \A i \in 1..Len(b) : Count(a, b[i]) = Count(b, b[i])

\* C12: whatever the random choices of the shuffle were, the options on
\* display for a question are a permutation of its distractors followed by
\* its correct answer, so the correct answer is among them.
C12_ShuffleIsPermutation ==
  (mounted /\ state.screen = "playing")
  => /\ IsPermutation(shuffledOptions, AllOptions(CurrentQ))
     /\ Count(shuffledOptions, CurrentQ.zhuyin) >= 1

\* C13: in a session of N >= 1 questions, the advance of the last question
\* (currentIndex = N - 1), fired for the question it was started for, sets
\* screen to gameover; and the session goes from playing to gameover only
\* when exactly N answers have been accepted in it, never earlier.
C13_GameOverAfterLastAnswer ==
  [][/\ \A k \in 1..Len(timers) :
          (/\ Advance(k)
           /\ Current.screen = "playing"
           /\ ~timers[k].left
           /\ timers[k].currentIndex = Current.currentIndex
           /\ Current.currentIndex = Length(Current.questions) - 1)
          => Current'.screen = "gameover"
     /\ (/\ Current.screen = "playing"
         /\ Current'.screen = "gameover"
         /\ Length(Current.questions) >= 1)
        => accepted = Length(Current.questions)]_vars

\* C14: score is a non-negative integer in every state, and the only step
\* that lowers it is a successful fetch installing a new session, which
\* sets it to 0: answers, advances, restart and the choice of a level never
\* lower it.
C14_ScoreMonotone ==
  [][/\ Current.score \in Nat
     /\ Current'.score \in Nat
     /\ Current'.score < Current.score
        => /\ \E r \in 1..Len(pending),
                 outcome \in GenerateContentOutcomes :
                FetchSucceeds(r, outcome)
           /\ Current'.score = 0]_vars

\* The score earned in a session is still there when gameover, restart and
\* the choice of a level have followed.
C14_Witness ==
  /\ state.screen = "loading"
  /\ queue = << >>
  /\ state.score = 22
  /\ state.streak = 2

\* C15: in every reachable state errorMessage is non-empty only if the
\* screen is error; it is empty in menu, loading, playing and gameover,
\* also when a failed fetch has been followed by a restart.
C15_ErrorMessageOnlyOnError ==
  Current.errorMessage # "" => Current.screen = "error"

\* C16: the application is always recoverable: whatever has happened, with
\* timers firing, requests resolving, renders and effects running and the
\* player answering and pressing restart, the screen is menu again at some
\* later time; no state is stuck away from the menu.
C16_AlwaysRecoverable ==
  []<>(state.screen = "menu")

\* C17: when a fetch succeeds with questions Q, the session is fully
\* reinitialised whatever an earlier session left behind: screen = playing,
\* questions = Q, currentIndex = 0, score = 0, streak = 0, selectedOption
\* and lastAnswerCorrect are null.
C17_SuccessReinitialises ==
  [][\A r \in 1..Len(pending), outcome \in GenerateContentOutcomes :
       FetchSucceeds(r, outcome)
       => /\ Current'.screen = "playing"
          /\ Current'.questions = JSONparse(outcome.text).value
          /\ Current'.currentIndex = 0
          /\ Current'.score = 0
          /\ Current'.streak = 0
          /\ Current'.selectedOption = Null
          /\ Current'.lastAnswerCorrect = Null]_vars

\* A second session has been installed and rendered: a timer of the session
\* before it is still pending, and nothing of that session is left in the
\* state.
C17_Witness ==
  /\ mounted
  /\ state.screen = "playing"
  /\ queue = << >>
  /\ accepted = 0
  /\ Len(timers) = 1
  /\ timers[1].left
  /\ state.currentIndex = 0
  /\ state.score = 0
  /\ state.streak = 0
  /\ state.selectedOption = Null
  /\ state.lastAnswerCorrect = Null

\* C18: an advance that fires for the question it was started for (the
\* screen is playing, the session has not been left and currentIndex is the
\* one the timer was started at) increments currentIndex by 1 and clears
\* selectedOption and lastAnswerCorrect if currentIndex < questions.length
\* - 1, and else only sets screen to gameover; score, streak, questions and
\* every other field stay as they are.
C18_AdvanceEffect ==
  [][\A k \in 1..Len(timers) :
       (/\ Advance(k)
        /\ Current.screen = "playing"
        /\ ~timers[k].left
        /\ timers[k].currentIndex = Current.currentIndex)
       => IF Current.currentIndex < Length(Current.questions) - 1
          THEN Current' = [Current EXCEPT
                             !.currentIndex = Current.currentIndex + 1,
                             !.selectedOption = Null,
                             !.lastAnswerCorrect = Null]
          ELSE Current' = [Current EXCEPT !.screen = "gameover"]]_vars

\* The advance after a correct first answer has led to the second question
\* with the score and the streak of that answer.
C18_Witness ==
  /\ mounted
  /\ state.screen = "playing"
  /\ queue = << >>
  /\ ~effectPending
  /\ state.currentIndex = 1
  /\ state.selectedOption = Null
  /\ state.lastAnswerCorrect = Null
  /\ state.score = 10
  /\ state.streak = 1
  /\ timers = << >>

\* C19: the options on display are recomputed when a question is entered
\* and at no other time: an answer leaves them as they are, and whenever
\* they change, the question on display changes with them and they are a
\* shuffle of its options.
C19_ShuffleOncePerQuestion ==
  [][/\ (\E option \in AnswerOptions, env \in SpeechEnvs :
            Answer(option, env))
        => shuffledOptions' = shuffledOptions
     /\ shuffledOptions' # shuffledOptions
        => /\ \/ state'.currentIndex # state.currentIndex
              \/ state'.questions # state.questions
              \/ state'.screen # state.screen
           /\ state'.screen = "playing"
           /\ shuffledOptions' \in
                Shuffles(Item(state'.questions, state'.currentIndex))]_vars

\* C20: in every reachable state with screen = gameover, currentIndex is
\* questions.length - 1, selectedOption is set and exactly questions.length
\* answers were accepted in the session; and in every reachable state the
\* number of answers accepted in the session is at most questions.length.
C20_GameOverAccounting ==
  /\ Current.screen = "gameover"
     => /\ Current.currentIndex = Length(Current.questions) - 1
        /\ Current.selectedOption # Null
        /\ accepted = Length(Current.questions)
  /\ Current.questions.type = "array"
     => accepted <= Length(Current.questions)

====
